---- MODULE Spec2Model ----
(***************************************************************************)
(* Model of library.c: a chunked keyword scan of a file.  main reads the   *)
(* keyword, opens the file, and loops: fread one chunk, search_in_chunk    *)
(* (device allocation, search_kernel, copy back, print the hits), then     *)
(* seek back keyword_length - 1 bytes.                                     *)
(*                                                                         *)
(* Bytes are small integers; 0 is NUL and NL is the newline.  An int read  *)
(* from uninitialised memory is abstracted to 1 or 0 ("any value other     *)
(* than 1"), because the only test the code applies to it is == 1.         *)
(* size_t arithmetic is taken modulo SIZE_MOD = 2^SizeBits.                *)
(***************************************************************************)
EXTENDS Integers, Sequences, FiniteSets, TLC

\* ---- bounds of the model ----
MaxFileLen == 4
MaxKeyLen == 3
MaxChunk == 4
SizeBits == 16
MaxFaults == 1
ReadCap == 2

\* ---- program constants ----
MAX_KEYWORD_LENGTH == 256
block_size == 256

NL == 10
\* characters of the keyword line (fgets stores no NUL or NL inside a keyword)
KeyChars == {1, 2}
\* bytes of the file; a NUL or any other byte outside the keyword acts as a
\* mismatch, like the other keyword character
Bytes == {1, 2}
SIZE_MOD == 2 ^ SizeBits

VARIABLES
    pc,             \* position of main
    stdin_line,     \* the line typed for the keyword, not yet consumed
    keyword,        \* char keyword[], up to its terminator
    keyword_length,
    file,           \* content of the opened file
    CHUNK_SIZE,     \* bytes requested per fread
    pos,            \* file position indicator of the stream
    ferr,           \* error indicator of the stream
    buffer,         \* bytes the last fread stored, then the terminator
    bytes_read,
    chunk_start,
    h_results,      \* host results of the current search_in_chunk call
    cuda_error,     \* first error a CUDA call returned (none is checked)
    emitted,        \* set of positions printed so far
    last_emitted,   \* last position printed, -1 before the first
    dup_emitted,    \* some position was printed twice
    order_ok,       \* every position printed was greater than the previous one
    exit_status,    \* "running" until the process ends
    run,            \* 1 for the first scan, 2 for the scan repeated with another chunk size
    first_emitted,  \* what the first scan printed
    faults_left,    \* read errors and CUDA errors the environment may still raise
    read_count,     \* per byte of the file: how many freads stored it, up to ReadCap
    heap,           \* the allocations that are live
    heap_misuse,    \* a pointer that is not live was freed, or a live one overwritten
    d_results,      \* device results while a kernel runs; UNSET where not written yet
    d_writes,       \* per element of d_results: writes by the threads of this launch
    threads_done,   \* threads with idx < buffer_size of this launch that have finished
    pad_done,       \* the threads with idx >= buffer_size of this launch have finished
    dev_oob         \* a thread wrote outside d_results

vars == <<pc, stdin_line, keyword, keyword_length, file, CHUNK_SIZE, pos, ferr,
          buffer, bytes_read, chunk_start, h_results, cuda_error, emitted,
          last_emitted, dup_emitted, order_ok, exit_status, run, first_emitted,
          faults_left, read_count, heap, heap_misuse, d_results, d_writes,
          threads_done, pad_done, dev_oob>>

\* the device state of a kernel launch
kernel_vars == <<d_results, d_writes, threads_done, pad_done, dev_oob>>

\* content of an element of d_results that no thread has written: what
\* cudaMalloc returned, indeterminate until it is read
UNSET == -1

\* ---- helpers ----
Min(a, b) == IF a < b THEN a ELSE b

SeqsUpTo(S, n) == UNION {[1..k -> S] : k \in 0..n}

\* size_t wrap-around
ToSizeT(x) == (x + SIZE_MOD) % SIZE_MOD

\* (long) of a size_t value: the top half of the range is negative
ToLong(x) == IF x >= SIZE_MOD \div 2 THEN x - SIZE_MOD ELSE x

\* fgets(keyword, MAX_KEYWORD_LENGTH, stdin): at most MAX_KEYWORD_LENGTH - 1
\* characters, stopping after the first newline
RECURSIVE fgets_take(_, _)
fgets_take(line, room) ==
    IF room = 0 \/ line = <<>> THEN <<>>
    ELSE IF Head(line) = NL THEN <<NL>>
    ELSE <<Head(line)>> \o fgets_take(Tail(line), room - 1)

fgets(line) == fgets_take(line, MAX_KEYWORD_LENGTH - 1)

\* strncmp(s1, s2, n): 0 when the first n characters agree or both strings
\* end at the same place before that; otherwise the sign of the first difference
RECURSIVE strncmp(_, _, _)
strncmp(s1, s2, n) ==
    IF n = 0 THEN 0
    ELSE IF Head(s1) # Head(s2) THEN (IF Head(s1) < Head(s2) THEN -1 ELSE 1)
    ELSE IF Head(s1) = 0 THEN 0
    ELSE strncmp(Tail(s1), Tail(s2), n - 1)

\* launch geometry of search_in_chunk
num_blocks(buffer_size) == (buffer_size + block_size - 1) \div block_size

ThreadIds(buffer_size) == 0 .. (num_blocks(buffer_size) * block_size - 1)

\* one thread of search_kernel: TRUE when the thread writes results[idx]
kernel_writes(idx, buffer_size, klen) == idx + klen <= buffer_size

\* the value the thread writes: strncmp(&buffer[idx], keyword, keyword_length) == 0
kernel_value(d_buffer, idx, key, klen) ==
    IF strncmp(SubSeq(d_buffer, idx + 1, Len(d_buffer)), key, klen) = 0 THEN 1 ELSE 0

\* d_results after the launch over d_buffer, the buffer_size bytes copied to
\* the device: the elements some thread wrote hold its value, the others
\* still hold what cudaMalloc returned (junk)
search_kernel(buf, buffer_size, key, klen, junk) ==
    LET d_buffer == SubSeq(buf, 1, buffer_size)
    IN [i \in 1..buffer_size |->
          IF (i - 1) \in ThreadIds(buffer_size) /\ kernel_writes(i - 1, buffer_size, klen)
          THEN kernel_value(d_buffer, i - 1, key, klen)
          ELSE junk[i]]

\* local indices the result loop prints, and the position printed for each
Hits(res) == {i \in 0..(Len(res) - 1) : res[i + 1] = 1}

Printed(cs, i) == ToSizeT(cs + i)

\* the position printed just before local index i of this chunk
PrevPrinted(res, cs, last, i) ==
    LET before == {j \in Hits(res) : j < i}
    IN IF before = {} THEN last
       ELSE Printed(cs, CHOOSE j \in before : \A k \in before : k <= j)

\* ---- initial state: before the keyword prompt ----
Init ==
    /\ pc = "get_keyword"
    /\ CHUNK_SIZE \in 1..MaxChunk
    \* the keyword array is far smaller than a chunk: a keyword never exceeds CHUNK_SIZE
    /\ \E key \in SeqsUpTo(KeyChars, Min(MaxKeyLen, CHUNK_SIZE)), nl \in BOOLEAN :
          stdin_line = IF nl THEN key \o <<NL>> ELSE key
    /\ keyword = <<>>
    /\ keyword_length = 0
    /\ file \in SeqsUpTo(Bytes, MaxFileLen)
    /\ pos = 0
    /\ ferr = FALSE
    /\ buffer = <<>>
    /\ bytes_read = 0
    /\ chunk_start = 0
    /\ h_results = <<>>
    /\ cuda_error = "cudaSuccess"
    /\ emitted = {}
    /\ last_emitted = -1
    /\ dup_emitted = FALSE
    /\ order_ok = TRUE
    /\ exit_status = "running"
    /\ run = 1
    /\ first_emitted = {}
    /\ faults_left = MaxFaults
    /\ read_count = [b \in 1..Len(file) |-> 0]
    /\ heap = {}
    /\ heap_misuse = FALSE
    /\ d_results = <<>>
    /\ d_writes = <<>>
    /\ threads_done = {}
    /\ pad_done = FALSE
    /\ dev_oob = FALSE

\* ---- main, lines 83-93: read the keyword and strip the newline ----
GetKeyword ==
    /\ pc = "get_keyword"
    /\ LET line == fgets(stdin_line)
           len == Len(line)
       IN IF line = <<>>
          THEN \* fgets returned NULL
               /\ pc' = "done"
               /\ exit_status' = "EXIT_FAILURE"
               /\ UNCHANGED <<keyword, keyword_length>>
          ELSE /\ pc' = "open"
               /\ exit_status' = exit_status
               /\ IF line[len] = NL
                  THEN /\ keyword' = SubSeq(line, 1, len - 1)
                       /\ keyword_length' = len - 1
                  ELSE /\ keyword' = line
                       /\ keyword_length' = len
    /\ stdin_line' = <<>>
    /\ UNCHANGED <<file, CHUNK_SIZE, pos, ferr, buffer, bytes_read, chunk_start,
                   h_results, cuda_error, emitted, last_emitted, dup_emitted,
                   order_ok, run, first_emitted, faults_left, read_count, heap,
                   heap_misuse, kernel_vars>>

\* ---- main, lines 95-121: file name, fopen, malloc of the chunk buffer ----
OpenFile ==
    /\ pc = "open"
    /\ \E ok \in BOOLEAN :
          IF ok
          THEN /\ pc' = "read"
               /\ pos' = 0
               /\ chunk_start' = 0
               /\ exit_status' = exit_status
               /\ heap' = heap \cup {"buffer"}
               /\ heap_misuse' = (heap_misuse \/ "buffer" \in heap)
          ELSE \* fgets, fopen or malloc returned NULL
               /\ pc' = "done"
               /\ exit_status' = "EXIT_FAILURE"
               /\ UNCHANGED <<pos, chunk_start, heap, heap_misuse>>
    /\ UNCHANGED <<stdin_line, keyword, keyword_length, file, CHUNK_SIZE, ferr,
                   buffer, bytes_read, h_results, cuda_error, emitted,
                   last_emitted, dup_emitted, order_ok, run, first_emitted,
                   faults_left, read_count, kernel_vars>>

\* the read counts after a fread that stored the n bytes at file offset p
CountRead(rc, p, n) ==
    [b \in DOMAIN rc |->
        IF p < b /\ b <= p + n THEN Min(ReadCap, rc[b] + 1) ELSE rc[b]]

\* bytes between the file position and the end of the file
Available == IF pos >= Len(file) THEN 0 ELSE Len(file) - pos

\* the while condition of line 123, a mutation of it (the body entered after a
\* read of 0 bytes) and the condition itself
LoopContinues_mut(n) == n >= 0

LoopContinues(n) == n > 0

\* ---- main, lines 123-125 and 134-139: the loop condition ----
\* fread stores n bytes and returns n; a return of 0 leaves the loop, whether
\* the stream is at its end or in error.  A read error cuts the transfer short
\* of CHUNK_SIZE.
ReadChunk ==
    /\ pc = "read"
    /\ \E fails \in BOOLEAN :
       \E n \in 0..Min(CHUNK_SIZE, Available) :
          /\ IF fails THEN faults_left > 0 /\ n < CHUNK_SIZE
                      ELSE n = Min(CHUNK_SIZE, Available)
          /\ faults_left' = IF fails THEN faults_left - 1 ELSE faults_left
          /\ ferr' = (ferr \/ fails)
          /\ pos' = pos + n
          /\ bytes_read' = n
          /\ read_count' = CountRead(read_count, pos, n)
          /\ IF LoopContinues(n)
             THEN /\ buffer' = SubSeq(file, pos + 1, pos + n) \o <<0>>
                  /\ pc' = "search"
                  /\ exit_status' = exit_status
                  /\ UNCHANGED <<heap, heap_misuse>>
             ELSE \* free(buffer), fclose, return
                  /\ buffer' = buffer
                  /\ pc' = "done"
                  /\ exit_status' = "EXIT_SUCCESS"
                  /\ heap' = heap \ {"buffer"}
                  /\ heap_misuse' = (heap_misuse \/ "buffer" \notin heap)
    /\ UNCHANGED <<stdin_line, keyword, keyword_length, file, CHUNK_SIZE,
                   chunk_start, h_results, cuda_error, emitted, last_emitted,
                   dup_emitted, order_ok, run, first_emitted, kernel_vars>>

\* a mutation of the frees at the end of search_in_chunk: h_results is not freed
FreedByCall_mut == {"d_buffer", "d_keyword", "d_results"}

\* what one search_in_chunk call allocates (lines 36-42) and frees (lines 65-68)
AllocatedByCall == {"h_results", "d_buffer", "d_keyword", "d_results"}

FreedByCall == {"d_buffer", "d_keyword", "d_results", "h_results"}

\* the allocations of a call that succeed: a failed malloc leaves h_results
\* NULL, a failed cudaMalloc leaves the device pointers unset
Obtained(outcome) ==
    IF outcome = "malloc_null" THEN AllocatedByCall \ {"h_results"}
    ELSE IF outcome = "cudaErrorMemoryAllocation" THEN {"h_results"}
    ELSE AllocatedByCall

\* outcomes of the allocations and transfers of one search_in_chunk call
EngineOutcomes == {"ok", "malloc_null", "cudaErrorMemoryAllocation", "cudaErrorTransfer"}

\* ---- search_in_chunk, lines 36-55: allocate, copy in, launch, copy back ----
\* No return value is tested.  After a failed cudaMalloc or cudaMemcpy the
\* host results hold whatever malloc returned.
SearchInChunk ==
    /\ pc = "search"
    /\ \E outcome \in EngineOutcomes :
       \E junk \in [1..bytes_read -> {0, 1}] :
          /\ outcome # "ok" => faults_left > 0
          /\ faults_left' = IF outcome # "ok" THEN faults_left - 1 ELSE faults_left
          /\ h_results' =
                IF outcome = "ok"
                THEN search_kernel(buffer, bytes_read, keyword, keyword_length, junk)
                ELSE IF outcome = "malloc_null" THEN <<>>
                ELSE junk
          /\ cuda_error' =
                IF cuda_error = "cudaSuccess" /\ outcome \notin {"ok", "malloc_null"}
                THEN outcome
                ELSE IF cuda_error = "cudaSuccess" /\ outcome = "malloc_null"
                THEN "cudaErrorInvalidValue"
                ELSE cuda_error
          /\ heap' = heap \cup Obtained(outcome)
          /\ heap_misuse' = (heap_misuse \/ Obtained(outcome) \cap heap # {})
    /\ pc' = "process"
    /\ UNCHANGED <<stdin_line, keyword, keyword_length, file, CHUNK_SIZE, pos,
                   ferr, buffer, bytes_read, chunk_start, emitted, last_emitted,
                   dup_emitted, order_ok, exit_status, run, first_emitted,
                   read_count, kernel_vars>>

\* ---- search_in_chunk, lines 57-68: print the hits, free ----
ProcessResults ==
    /\ pc = "process"
    /\ IF h_results = <<>>
       THEN \* h_results is NULL: the first h_results[i] faults
            /\ pc' = "done"
            /\ exit_status' = "SIGSEGV"
            /\ UNCHANGED <<emitted, last_emitted, dup_emitted, order_ok, heap,
                           heap_misuse>>
       ELSE LET hits == Hits(h_results)
            IN /\ emitted' = emitted \cup {Printed(chunk_start, i) : i \in hits}
               /\ dup_emitted' =
                     (dup_emitted \/ \E i \in hits : Printed(chunk_start, i) \in emitted)
               /\ order_ok' =
                     (order_ok /\ \A i \in hits :
                         PrevPrinted(h_results, chunk_start, last_emitted, i)
                            < Printed(chunk_start, i))
               /\ last_emitted' =
                     IF hits = {} THEN last_emitted
                     ELSE Printed(chunk_start, CHOOSE i \in hits : \A k \in hits : k <= i)
               /\ heap' = heap \ FreedByCall
               /\ heap_misuse' = (heap_misuse \/ ~(FreedByCall \subseteq heap))
               /\ pc' = "advance"
               /\ exit_status' = exit_status
    /\ h_results' = <<>>
    /\ d_results' = <<>>
    /\ d_writes' = <<>>
    /\ threads_done' = {}
    /\ pad_done' = FALSE
    /\ dev_oob' = dev_oob
    /\ UNCHANGED <<stdin_line, keyword, keyword_length, file, CHUNK_SIZE, pos,
                   ferr, buffer, bytes_read, chunk_start, cuda_error, run,
                   first_emitted, faults_left, read_count>>

\* mutations of the seek offset: no seek back; a seek back of keyword_length
SeekOffset_mut(klen) == 0

SeekOffset_back(klen) == 0 - ToLong(ToSizeT(klen))

\* offset handed to fseek: -(long)(keyword_length - 1)
SeekOffset(klen) == 0 - ToLong(ToSizeT(klen - 1))

\* fseek(file, off, SEEK_CUR): fails, leaving the position, when the target is negative
fseek(p, off) == IF p + off < 0 THEN p ELSE p + off

\* ---- main, lines 127-131: advance chunk_start and seek back ----
Advance ==
    /\ pc = "advance"
    /\ chunk_start' = ToSizeT(ToSizeT(chunk_start + bytes_read) - ToSizeT(keyword_length - 1))
    /\ pos' = fseek(pos, SeekOffset(keyword_length))
    /\ pc' = "read"
    /\ UNCHANGED <<stdin_line, keyword, keyword_length, file, CHUNK_SIZE, ferr,
                   buffer, bytes_read, h_results, cuda_error, emitted,
                   last_emitted, dup_emitted, order_ok, exit_status, run,
                   first_emitted, faults_left, read_count, heap, heap_misuse,
                   kernel_vars>>

\* ---- the same keyword and file scanned again with another CHUNK_SIZE, ----
\* ---- after a first scan that met no error                              ----
Rerun ==
    /\ pc = "done"
    /\ exit_status = "EXIT_SUCCESS"
    /\ run = 1
    /\ faults_left = MaxFaults
    /\ \E c \in 1..MaxChunk :
          /\ c # CHUNK_SIZE
          /\ keyword_length <= c
          /\ CHUNK_SIZE' = c
    /\ run' = 2
    /\ first_emitted' = emitted
    /\ pc' = "open"
    /\ exit_status' = "running"
    /\ pos' = 0
    /\ ferr' = FALSE
    /\ buffer' = <<>>
    /\ bytes_read' = 0
    /\ chunk_start' = 0
    /\ cuda_error' = "cudaSuccess"
    /\ emitted' = {}
    /\ last_emitted' = -1
    /\ dup_emitted' = FALSE
    /\ order_ok' = TRUE
    /\ read_count' = [b \in 1..Len(file) |-> 0]
    /\ heap' = {}
    /\ heap_misuse' = FALSE
    /\ dev_oob' = FALSE
    /\ UNCHANGED <<stdin_line, keyword, keyword_length, file, h_results, faults_left,
                   d_results, d_writes, threads_done, pad_done>>

Next ==
    \/ GetKeyword
    \/ OpenFile
    \/ ReadChunk
    \/ SearchInChunk
    \/ ProcessResults
    \/ Advance
    \/ Rerun

Spec == Init /\ [][Next]_vars

\* the process is scheduled until it exits
FairSpec == Spec /\ WF_vars(Next)

\* ---- search_in_chunk and search_kernel, thread by thread ----

\* a mutation of the element a thread writes: the element after its own
results_index_mut(idx) == idx + 1

\* the element of results a thread writes: results[idx]
results_index(idx) == idx

\* a mutation of the wait before the copy back: the copy does not wait
KernelComplete_mut == TRUE

\* cudaMemcpy on the default stream starts after every thread of the launch
\* has finished
KernelComplete ==
    /\ threads_done = ThreadIds(bytes_read) \cap 0..(bytes_read - 1)
    /\ pad_done

\* lines 36-52: the allocations, the copies to the device and the launch
LaunchKernel ==
    /\ pc = "search"
    /\ d_results' = [i \in 1..bytes_read |-> UNSET]
    /\ d_writes' = [i \in 1..bytes_read |-> 0]
    /\ threads_done' = {}
    /\ pad_done' = FALSE
    /\ heap' = heap \cup AllocatedByCall
    /\ heap_misuse' = (heap_misuse \/ AllocatedByCall \cap heap # {})
    /\ pc' = "kernel"
    /\ UNCHANGED <<stdin_line, keyword, keyword_length, file, CHUNK_SIZE, pos,
                   ferr, buffer, bytes_read, chunk_start, h_results, cuda_error,
                   emitted, last_emitted, dup_emitted, order_ok, exit_status,
                   run, first_emitted, faults_left, read_count, dev_oob>>

\* lines 21-30: one thread with idx < buffer_size runs to its end
KernelThread ==
    /\ pc = "kernel"
    /\ \E idx \in (0..(bytes_read - 1)) \ threads_done :
          /\ idx \in ThreadIds(bytes_read)
          /\ threads_done' = threads_done \cup {idx}
          /\ IF kernel_writes(idx, bytes_read, keyword_length)
             THEN LET e == results_index(idx) + 1
                      v == kernel_value(SubSeq(buffer, 1, bytes_read), idx,
                                        keyword, keyword_length)
                  IN IF e \in 1..bytes_read
                     THEN /\ d_results' = [d_results EXCEPT ![e] = v]
                          /\ d_writes' = [d_writes EXCEPT ![e] = @ + 1]
                          /\ dev_oob' = dev_oob
                     ELSE /\ dev_oob' = TRUE
                          /\ UNCHANGED <<d_results, d_writes>>
             ELSE UNCHANGED <<d_results, d_writes, dev_oob>>
    /\ UNCHANGED <<pc, stdin_line, keyword, keyword_length, file, CHUNK_SIZE, pos,
                   ferr, buffer, bytes_read, chunk_start, h_results, cuda_error,
                   emitted, last_emitted, dup_emitted, order_ok, exit_status,
                   run, first_emitted, faults_left, read_count, heap, heap_misuse,
                   pad_done>>

\* the threads of the last block with idx >= buffer_size
Padding(buffer_size) == {idx \in ThreadIds(buffer_size) : idx >= buffer_size}

\* lines 21-30: the padding threads run to their end; one that passes the
\* test of line 23 writes outside results
PaddingThreads ==
    /\ pc = "kernel"
    /\ ~pad_done
    /\ pad_done' = TRUE
    /\ dev_oob' = (dev_oob \/ \E idx \in Padding(bytes_read) :
                                 kernel_writes(idx, bytes_read, keyword_length))
    /\ UNCHANGED <<pc, stdin_line, keyword, keyword_length, file, CHUNK_SIZE, pos,
                   ferr, buffer, bytes_read, chunk_start, h_results, cuda_error,
                   emitted, last_emitted, dup_emitted, order_ok, exit_status,
                   run, first_emitted, faults_left, read_count, heap, heap_misuse,
                   d_results, d_writes, threads_done>>

\* line 55: the copy of d_results to h_results; an element no thread has
\* written is copied with the value it happens to hold
CopyBack ==
    /\ pc = "kernel"
    /\ KernelComplete
    /\ \E junk \in [1..bytes_read -> {0, 1}] :
          h_results' = [i \in 1..bytes_read |->
                           IF d_results[i] = UNSET THEN junk[i] ELSE d_results[i]]
    /\ pc' = "process"
    /\ UNCHANGED <<stdin_line, keyword, keyword_length, file, CHUNK_SIZE, pos,
                   ferr, buffer, bytes_read, chunk_start, cuda_error, emitted,
                   last_emitted, dup_emitted, order_ok, exit_status, run,
                   first_emitted, faults_left, read_count, heap, heap_misuse,
                   kernel_vars>>

KernelNext ==
    \/ GetKeyword
    \/ OpenFile
    \/ ReadChunk
    \/ LaunchKernel
    \/ KernelThread
    \/ PaddingThreads
    \/ CopyBack
    \/ ProcessResults
    \/ Advance

\* the scan with the threads of each launch interleaved
KernelSpec == Init /\ [][KernelNext]_vars

TypeOK ==
    /\ pc \in {"get_keyword", "open", "read", "search", "kernel", "process", "advance", "done"}
    /\ exit_status \in {"running", "EXIT_SUCCESS", "EXIT_FAILURE", "SIGSEGV"}
    /\ keyword_length = Len(keyword)
    /\ chunk_start \in 0..(SIZE_MOD - 1)
    /\ bytes_read \in 0..CHUNK_SIZE
    /\ pos >= 0

\* ---- reference notions the claims are stated with ----

\* positions i of F with F[i .. i+len(K)) = K
MatchPositions(F, K) ==
    {i \in 0..(Len(F) - Len(K)) : SubSeq(F, i + 1, i + Len(K)) = K}

\* the environment raised no read error and no CUDA error so far
NoFault == faults_left = MaxFaults

\* the keyword satisfies the precondition 1 <= len(K) <= chunk capacity
ValidKeyword == pc # "get_keyword" /\ keyword_length >= 1 /\ keyword_length <= CHUNK_SIZE

\* C1 (completeness): with a keyword of length 1..C and no fault, every
\* position printed is a position where the keyword occurs in the file, and
\* when the scan has completed the positions printed are exactly those
\* positions.
C1_Completeness ==
    (ValidKeyword /\ NoFault) =>
        /\ emitted \subseteq MatchPositions(file, keyword)
        /\ (pc = "done" /\ exit_status = "EXIT_SUCCESS"
               => emitted = MatchPositions(file, keyword))

\* C2 (no duplicates): with a valid keyword and no fault, no position is
\* printed more than once over the whole scan.
C2_NoDuplicates == (ValidKeyword /\ NoFault) => ~dup_emitted

\* C3 (termination): the scan loop reaches Done: the process eventually exits.
C3_Termination == <>(pc = "done")

\* C4 (monotonic order): with a valid keyword and no fault, every position
\* printed is greater than the one printed before it, within a chunk and
\* from one chunk to the next.
C4_Monotonic == (ValidKeyword /\ NoFault) => order_ok

\* C5 (chunk-size independence): two completed fault-free scans of the same
\* file for the same keyword, run with different chunk capacities >= len(K),
\* print the same set of positions.
C5_ChunkSizeIndependent ==
    (ValidKeyword /\ NoFault /\ run = 2 /\ pc = "done" /\ exit_status = "EXIT_SUCCESS")
        => emitted = first_emitted

\* C6 (hit map): after a fault-free Match Engine call on n bytes the map has
\* n entries, and entry i is 1 exactly when i + len(K) <= n and the n-byte
\* buffer holds K at i; entries where K cannot fit are not 1.
C6_HitMap ==
    (ValidKeyword /\ NoFault /\ pc = "process") =>
        /\ Len(h_results) = bytes_read
        /\ \A i \in 0..(bytes_read - 1) :
              (h_results[i + 1] = 1) <=>
                 (/\ i + keyword_length <= bytes_read
                  /\ SubSeq(buffer, i + 1, i + keyword_length) = keyword)

\* C7 (keyword longer than the chunk): processing the results of a chunk with
\* bytes_read < len(K) prints nothing.
C7_ShortChunkSilent ==
    [][(ValidKeyword /\ NoFault /\ pc = "process" /\ bytes_read < keyword_length)
          => (emitted' = emitted /\ dup_emitted' = dup_emitted
              /\ last_emitted' = last_emitted)]_vars

\* C8 (file-read failure): once a chunk read has failed the scan has ended,
\* with a status other than the one of a normal completion.
C8_ReadFailureAborts ==
    ferr => (pc = "done" /\ exit_status = "EXIT_FAILURE")

\* C9 (Match Engine failure is fatal): once an allocation or a transfer of a
\* Match Engine call has failed, the driver neither advances nor reads nor
\* searches another chunk, and the scan does not end as a success.
C9_EngineFailureFatal ==
    cuda_error # "cudaSuccess" =>
        /\ pc \in {"process", "done"}
        /\ (pc = "done" => exit_status # "EXIT_SUCCESS")

\* C10 (empty keyword rejected): when the keyword is empty after the newline
\* is stripped, no chunk is searched, nothing is printed, and the process
\* ends in failure, not in a completed scan.
C10_EmptyKeywordRejected ==
    (pc # "get_keyword" /\ keyword_length = 0) =>
        /\ pc \in {"open", "read", "done"}
        /\ emitted = {}
        /\ (pc = "done" => exit_status = "EXIT_FAILURE")

\* C11 (empty file): with a file of zero length the first read returns zero
\* bytes and ends the scan: search_in_chunk is never entered, nothing is
\* printed, no CUDA call is made, and the process does not fault.
C11_EmptyFile ==
    file = <<>> =>
        /\ pc \in {"get_keyword", "open", "read", "done"}
        /\ bytes_read = 0
        /\ emitted = {}
        /\ h_results = <<>>
        /\ cuda_error = "cudaSuccess"
        /\ exit_status # "SIGSEGV"

\* an empty file was read and the scan completed
C11_Witness ==
    /\ file = <<>>
    /\ keyword_length >= 1
    /\ pc = "done"
    /\ exit_status = "EXIT_SUCCESS"

\* C12 (advance rule): after a chunk with bytes_read < C the driver does not
\* move the read cursor back, and its next read stores no further chunk: the
\* scan goes to Done.
C12_AdvanceRule ==
    /\ [][(ValidKeyword /\ NoFault /\ pc = "advance" /\ bytes_read < CHUNK_SIZE)
             => pos' = pos]_vars
    /\ [][(ValidKeyword /\ NoFault /\ pc = "read"
             /\ 0 < bytes_read /\ bytes_read < CHUNK_SIZE)
             => pc' = "done"]_vars

\* C13 (scan cursor): in a fault-free scan with a valid keyword, whenever
\* search_in_chunk runs, chunk_start is the file offset of buffer[0] (the
\* buffer holds file[chunk_start .. chunk_start + bytes_read)); the result
\* loop prints exactly chunk_start + i for the hits i; and after a full chunk
\* the next chunk_start is chunk_start + bytes_read - (keyword_length - 1),
\* which is also where the next read starts.
C13_ScanCursor ==
    /\ []((ValidKeyword /\ NoFault /\ pc \in {"search", "process"}) =>
             /\ chunk_start + bytes_read = pos
             /\ buffer = SubSeq(file, chunk_start + 1, chunk_start + bytes_read) \o <<0>>)
    /\ [][(ValidKeyword /\ NoFault /\ pc = "process") =>
             emitted' = emitted \cup {chunk_start + i : i \in Hits(h_results)}]_vars
    /\ [][(ValidKeyword /\ NoFault /\ pc = "advance" /\ bytes_read = CHUNK_SIZE) =>
             /\ chunk_start' = chunk_start + bytes_read - (keyword_length - 1)
             /\ pos' = chunk_start']_vars

\* a chunk after the first, overlapping the previous one, is being searched
C13_Witness ==
    /\ ValidKeyword /\ NoFault
    /\ keyword_length >= 2
    /\ pc = "search"
    /\ chunk_start > 0
    /\ bytes_read = CHUNK_SIZE

\* bytes allocated for the chunk buffer: malloc(CHUNK_SIZE + keyword_length - 1)
buffer_capacity == ToSizeT(CHUNK_SIZE + keyword_length - 1)

\* C17 (chunk buffer bounds): with a keyword of length >= 1, the bytes stored
\* by fread (indices 0 .. bytes_read - 1) and the terminator stored at index
\* bytes_read all lie below the allocated capacity.
C17_BufferBounds ==
    (ValidKeyword /\ pc = "search") => bytes_read < buffer_capacity

\* C19 (no cursor underflow): with a keyword of length >= 1 and no fault,
\* chunk_start + bytes_read - (keyword_length - 1) is not negative and the
\* seek does not target a position before offset 0.
C19_NoUnderflow ==
    (ValidKeyword /\ NoFault /\ pc = "advance") =>
        /\ chunk_start + bytes_read - (keyword_length - 1) >= 0
        /\ pos + SeekOffset(keyword_length) >= 0

\* C14 (single-byte keyword): with keyword_length = 1 the seek offset is 0,
\* the file position never moves backwards within a scan, no byte of the file
\* is stored by more than one fread, every byte of a chunk is compared (its
\* result is the comparison with the keyword byte), and a completed
\* fault-free scan has read every byte exactly once.
C14_SingleByteKeyword ==
    /\ []((pc # "get_keyword" /\ keyword_length = 1) =>
             /\ SeekOffset(keyword_length) = 0
             /\ \A b \in DOMAIN read_count : read_count[b] <= 1
             /\ (NoFault /\ pc = "process" =>
                    \A i \in 1..bytes_read :
                       (h_results[i] = 1) <=> (buffer[i] = keyword[1]))
             /\ (NoFault /\ pc = "done" /\ exit_status = "EXIT_SUCCESS" =>
                    \A b \in DOMAIN read_count : read_count[b] = 1))
    /\ [][(pc # "get_keyword" /\ keyword_length = 1 /\ run' = run) => pos' >= pos]_vars

\* a scan for a one-byte keyword completed after more than one chunk
C14_Witness ==
    /\ keyword_length = 1 /\ NoFault
    /\ Len(file) > CHUNK_SIZE
    /\ pc = "done"
    /\ exit_status = "EXIT_SUCCESS"

\* C16 (resource lifecycle): in a scan without an allocation or transfer
\* failure no pointer is freed that is not live and no live pointer is
\* overwritten by a new allocation; at every read only the chunk buffer is
\* live, during the result loop the chunk buffer and the four allocations of
\* the call are live, and after a completed scan nothing is live.
C16_ResourceLifecycle ==
    NoFault =>
        /\ ~heap_misuse
        /\ (pc \in {"read", "search", "advance"} => heap = {"buffer"})
        /\ (pc = "process" => heap = {"buffer"} \cup AllocatedByCall)
        /\ (pc = "done" /\ exit_status = "EXIT_SUCCESS" => heap = {})

\* a scan that searched at least one chunk completed and freed everything
C16_Witness ==
    /\ NoFault
    /\ pc = "done"
    /\ exit_status = "EXIT_SUCCESS"
    /\ pos > 0
    /\ heap = {}

\* C15 (fan-out/fan-in barrier): under every interleaving of the threads, the
\* result loop starts only when every thread of the launch has finished and
\* h_results is the complete d_results; and the chunk buffer is overwritten
\* only by a read made when no launch is in progress and the results of the
\* previous chunk have been processed and freed.
C15_Barrier ==
    /\ [](pc = "process" =>
             /\ threads_done = 0..(bytes_read - 1)
             /\ pad_done
             /\ \A i \in 1..bytes_read :
                   /\ i + keyword_length - 1 <= bytes_read => d_results[i] # UNSET
                   /\ d_results[i] # UNSET => h_results[i] = d_results[i])
    /\ [][buffer' # buffer =>
             /\ pc = "read"
             /\ threads_done = {}
             /\ ~pad_done
             /\ h_results = <<>>
             /\ d_results = <<>>]_vars

\* the results of a chunk after the first are about to be printed
C15_Witness ==
    /\ ValidKeyword
    /\ pc = "process"
    /\ chunk_start > 0
    /\ threads_done = 0..(bytes_read - 1)
    /\ pad_done
    /\ Hits(h_results) # {}

\* C18 (kernel write safety): with a keyword of length >= 1, in a launch of
\* ceil(buffer_size / 256) blocks of 256 threads, under every interleaving:
\* no thread, padding threads included, writes outside results; no element
\* is written twice; and an element that was written was written by the
\* finished thread of that index, for which idx + keyword_length <= buffer_size.
C18_KernelWriteSafety ==
    (ValidKeyword /\ pc \in {"kernel", "process"}) =>
        /\ ~dev_oob
        /\ Len(d_results) = bytes_read
        /\ \A i \in 1..bytes_read :
              /\ d_writes[i] <= 1
              /\ d_writes[i] = 1 =>
                    /\ (i - 1) \in threads_done
                    /\ (i - 1) + keyword_length <= bytes_read

\* a launch in which some threads have written and others have not finished
C18_Witness ==
    /\ ValidKeyword
    /\ pc = "kernel"
    /\ \E i \in 1..bytes_read : d_writes[i] = 1
    /\ \E idx \in 0..(bytes_read - 1) : idx \notin threads_done
    /\ pad_done

====
